---- MODULE Spec2Model ----
(***************************************************************************)
(* Transport-velocity SPH operators (transport_velocity_free_of_           *)
(* NumberDensity.py) and the wind-tunnel set-up (flow_past_cyl.py):        *)
(* the pairwise operators, the staged evaluation of operator lists over    *)
(* particle collections, and the open inlet/outlet boundary manager.       *)
(*                                                                         *)
(* Numbers are exact rationals <<n, d>> (d > 0, lowest terms); <<0, 0>>    *)
(* is the result of a division by zero (what IEEE arithmetic gives as      *)
(* nan/inf) and is absorbing.                                              *)
(***************************************************************************)
EXTENDS Integers, Sequences, FiniteSets, TLC

VARIABLES
    mode,       \* which entry point this behaviour exercises
    pa,         \* engine: particle arrays, collection name -> sequence of particle records
    nbr,        \* engine: neighbour provider, <<collection, index>> -> sequence of pairs
    prog,       \* engine: the stage list being evaluated
    pc,         \* engine: position of the evaluation loop
    cycle,      \* engine: evaluation cycles started so far
    divs,       \* engine: <<operator, collection, index>> whose finalize divided by wij
    fin,        \* engine: the particles finalized in the current cycle, per stage
    ghostReads, \* engine: ghost velocities read as source values by SolidWallNoSlipBC
    io,         \* open-boundary manager: the inlet, fluid and outlet collections
    ioLast,     \* open-boundary manager: what the last advance call saw and did
    ctor,       \* operator construction: the last constructor call and its outcome
    fx,         \* single operator evaluations: inputs drawn and results computed
    start       \* parallel evaluation: the particle arrays when the cycle started

evars == <<pa, nbr, prog, pc, cycle, divs, fin, ghostReads>>
iovars == <<io, ioLast>>
vars == <<mode, pa, nbr, prog, pc, cycle, divs, fin, ghostReads, io, ioLast, ctor, fx,
          start>>

----------------------------------------------------------------------------
(* Exact rational arithmetic standing for the float arithmetic of the code *)

RECURSIVE Gcd(_, _)
Gcd(a, b) == IF b = 0 THEN a ELSE Gcd(b, a % b)

Abs(n) == IF n < 0 THEN -n ELSE n

Undef == <<0, 0>>

IsUndef(a) == a[2] = 0

Norm(n, d) ==
    IF d = 0 THEN Undef
    ELSE LET g == Gcd(Abs(n), Abs(d))
             s == IF d < 0 THEN -1 ELSE 1
         IN <<s * (n \div g), s * (d \div g)>>

R(n) == <<n, 1>>
Q(n, d) == Norm(n, d)
Zero == <<0, 1>>
One == <<1, 1>>
Two == <<2, 1>>

\* sums and products cancel common factors first, to keep the integers small
RAdd(a, b) ==
    IF IsUndef(a) \/ IsUndef(b) THEN Undef
    ELSE LET g == Gcd(a[2], b[2])
         IN Norm(a[1] * (b[2] \div g) + b[1] * (a[2] \div g), (a[2] \div g) * b[2])

RNeg(a) == IF IsUndef(a) THEN Undef ELSE <<-a[1], a[2]>>

RSub(a, b) == RAdd(a, RNeg(b))

RMul(a, b) ==
    IF IsUndef(a) \/ IsUndef(b) THEN Undef
    ELSE IF a[1] = 0 \/ b[1] = 0 THEN Zero
    ELSE LET g1 == Gcd(Abs(a[1]), b[2])
             g2 == Gcd(Abs(b[1]), a[2])
         IN Norm((a[1] \div g1) * (b[1] \div g2), (a[2] \div g2) * (b[2] \div g1))

RInv(a) == IF IsUndef(a) \/ a[1] = 0 THEN Undef ELSE Norm(a[2], a[1])

RDiv(a, b) == IF RInv(b) = Undef THEN Undef ELSE RMul(a, RInv(b))

RLt(a, b) == ~IsUndef(a) /\ ~IsUndef(b) /\ a[1] * b[2] < b[1] * a[2]

\* a > 10^(-k), computed without forming 10^k: n * 10^k > d  iff  n > d \div 10^k
RECURSIVE ExceedsPow10(_, _, _)
ExceedsPow10(n, d, k) == IF k = 0 THEN n > d ELSE ExceedsPow10(n, d \div 10, k - 1)

RGtTenToMinus(a, k) == ~IsUndef(a) /\ ExceedsPow10(a[1], a[2], k)

Dot3(a, b) == RAdd(RAdd(RMul(a[1], b[1]), RMul(a[2], b[2])), RMul(a[3], b[3]))

----------------------------------------------------------------------------
(* Parameters of the wind tunnel, flow_past_cyl.py                         *)

diameter == 2
rho == 1000
umax == 1
c0 == 10 * umax
p0 == rho * c0 * c0
re_default == 200
nx_default == 20
l_tunnel == 15

\* consume_user_options: nu = umax * diameter / re, dx = diameter / nx
nu0 == Q(umax * diameter, re_default)
dx0 == Q(diameter, nx_default)

\* _create_fluid and the other _create_*: m = dx * dx * rho
m0 == RMul(RMul(dx0, dx0), R(rho))

----------------------------------------------------------------------------
(* Epsilon guards of the weighted-average finalizers: wij > 10^(-k)        *)

SetWallVelocityTolExp == 12
SolidWallPressureTolExp == 14
ExtrapolateUhatTolExp == 14

----------------------------------------------------------------------------
(* transport_velocity_free_of_NumberDensity.py: the operators.  d is the   *)
(* destination particle's record, s the source particle's, g the pair      *)
(* geometry (WIJ, DWIJ, XIJ, VIJ, R2IJ, EPS, HIJ), e the operator instance *)

VolumeFromMassDensity_loop(d) == [d EXCEPT !.V = RDiv(d.rho, d.m)]

SetWallVelocity_initialize(d) ==
    [d EXCEPT !.uf = Zero, !.vf = Zero, !.wf = Zero, !.wij = Zero]

SetWallVelocity_loop_overwrites(d, s, g) ==
    [d EXCEPT !.wij = RAdd(d.wij, g.WIJ),
              !.uf = RMul(s.u, g.WIJ),
              !.vf = RMul(s.v, g.WIJ),
              !.wf = RMul(s.w, g.WIJ)]

SetWallVelocity_loop(d, s, g) ==
    [d EXCEPT !.wij = RAdd(d.wij, g.WIJ),
              !.uf = RAdd(d.uf, RMul(s.u, g.WIJ)),
              !.vf = RAdd(d.vf, RMul(s.v, g.WIJ)),
              !.wf = RAdd(d.wf, RMul(s.w, g.WIJ))]

SetWallVelocity_divides_unguarded(d) == TRUE

SetWallVelocity_divides(d) == RGtTenToMinus(d.wij, SetWallVelocityTolExp)

SetWallVelocity_ghost_unmirrored(d) ==
    [d EXCEPT !.ug = RSub(d.u, d.uf),
              !.vg = RSub(d.v, d.vf),
              !.wg = RSub(d.w, d.wf)]

SetWallVelocity_ghost(d) ==
    [d EXCEPT !.ug = RSub(RMul(Two, d.u), d.uf),
              !.vg = RSub(RMul(Two, d.v), d.vf),
              !.wg = RSub(RMul(Two, d.w), d.wf)]

SetWallVelocity_post_loop(d) ==
    LET d1 == IF SetWallVelocity_divides(d)
              THEN [d EXCEPT !.uf = RDiv(d.uf, d.wij),
                             !.vf = RDiv(d.vf, d.wij),
                             !.wf = RDiv(d.wf, d.wij)]
              ELSE d
    IN SetWallVelocity_ghost(d1)

StateEquation_loop_b_outside(e, d) ==
    [d EXCEPT !.p = RSub(RMul(e.p0, RDiv(d.rho, e.rho0)), e.b)]

StateEquation_loop(e, d) ==
    [d EXCEPT !.p = RMul(e.p0, RSub(RDiv(d.rho, e.rho0), e.b))]

MomentumEquationPressureGradient_initialize(d) ==
    [d EXCEPT !.au = Zero, !.av = Zero, !.aw = Zero,
              !.auhat = Zero, !.avhat = Zero, !.awhat = Zero]

MomentumEquationPressureGradient_loop_pb_in_momentum(e, d, s, g) ==
    LET rhoi == d.rho
        rhoj == s.rho
        p_i == d.p
        p_j == s.p
        pij == RDiv(RAdd(RMul(rhoj, p_i), RMul(rhoi, p_j)), RAdd(rhoj, rhoi))
        Vi == RDiv(One, d.V)
        Vj == RDiv(One, s.V)
        Vi2 == RMul(Vi, Vi)
        Vj2 == RMul(Vj, Vj)
        mi1 == RDiv(One, d.m)
        tmp == RMul(RMul(RNeg(RAdd(pij, e.pb)), mi1), RAdd(Vi2, Vj2))
        tmpb == RMul(RMul(RNeg(e.pb), mi1), RAdd(Vi2, Vj2))
    IN [d EXCEPT !.au = RAdd(d.au, RMul(tmp, g.DWIJ[1])),
                 !.av = RAdd(d.av, RMul(tmp, g.DWIJ[2])),
                 !.aw = RAdd(d.aw, RMul(tmp, g.DWIJ[3])),
                 !.auhat = RAdd(d.auhat, RMul(tmpb, g.DWIJ[1])),
                 !.avhat = RAdd(d.avhat, RMul(tmpb, g.DWIJ[2])),
                 !.awhat = RAdd(d.awhat, RMul(tmpb, g.DWIJ[3]))]

MomentumEquationPressureGradient_loop_reads_source_auhat(e, d, s, g) ==
    LET rhoi == d.rho
        rhoj == s.rho
        p_i == d.p
        p_j == s.p
        pij == RDiv(RAdd(RMul(rhoj, p_i), RMul(rhoi, p_j)), RAdd(rhoj, rhoi))
        Vi == RDiv(One, d.V)
        Vj == RDiv(One, s.V)
        Vi2 == RMul(Vi, Vi)
        Vj2 == RMul(Vj, Vj)
        mi1 == RDiv(One, d.m)
        tmp == RMul(RMul(RNeg(RAdd(pij, s.auhat)), mi1), RAdd(Vi2, Vj2))
        tmpb == RMul(RMul(RNeg(e.pb), mi1), RAdd(Vi2, Vj2))
    IN [d EXCEPT !.au = RAdd(d.au, RMul(tmp, g.DWIJ[1])),
                 !.av = RAdd(d.av, RMul(tmp, g.DWIJ[2])),
                 !.aw = RAdd(d.aw, RMul(tmp, g.DWIJ[3])),
                 !.auhat = RAdd(d.auhat, RMul(tmpb, g.DWIJ[1])),
                 !.avhat = RAdd(d.avhat, RMul(tmpb, g.DWIJ[2])),
                 !.awhat = RAdd(d.awhat, RMul(tmpb, g.DWIJ[3]))]

MomentumEquationPressureGradient_loop(e, d, s, g) ==
    LET rhoi == d.rho
        rhoj == s.rho
        p_i == d.p
        p_j == s.p
        pij == RDiv(RAdd(RMul(rhoj, p_i), RMul(rhoi, p_j)), RAdd(rhoj, rhoi))
        Vi == RDiv(One, d.V)
        Vj == RDiv(One, s.V)
        Vi2 == RMul(Vi, Vi)
        Vj2 == RMul(Vj, Vj)
        mi1 == RDiv(One, d.m)
        tmp == RMul(RMul(RNeg(pij), mi1), RAdd(Vi2, Vj2))
        tmpb == RMul(RMul(RNeg(e.pb), mi1), RAdd(Vi2, Vj2))
    IN [d EXCEPT !.au = RAdd(d.au, RMul(tmp, g.DWIJ[1])),
                 !.av = RAdd(d.av, RMul(tmp, g.DWIJ[2])),
                 !.aw = RAdd(d.aw, RMul(tmp, g.DWIJ[3])),
                 !.auhat = RAdd(d.auhat, RMul(tmpb, g.DWIJ[1])),
                 !.avhat = RAdd(d.avhat, RMul(tmpb, g.DWIJ[2])),
                 !.awhat = RAdd(d.awhat, RMul(tmpb, g.DWIJ[3]))]

\* sin(x * pi) at the arguments where it is rational
SinPi(x) ==
    CASE x = Q(-1, 2) -> R(-1)
      [] x = Q(-1, 6) -> Q(-1, 2)
      [] x = Zero -> Zero
      [] x = Q(1, 6) -> Q(1, 2)
      [] x = Q(1, 2) -> One

damping_factor(e, t) ==
    IF RLt(t, e.tdamp)
    THEN RMul(Q(1, 2), RAdd(SinPi(RAdd(Q(-1, 2), RDiv(t, e.tdamp))), One))
    ELSE One

MomentumEquationPressureGradient_post_loop(e, d, t) ==
    [d EXCEPT !.au = RAdd(d.au, RMul(e.gx, damping_factor(e, t))),
              !.av = RAdd(d.av, RMul(e.gy, damping_factor(e, t))),
              !.aw = RAdd(d.aw, RMul(e.gz, damping_factor(e, t)))]

MomentumEquationViscosity_initialize(d) ==
    [d EXCEPT !.au = Zero, !.av = Zero, !.aw = Zero]

MomentumEquationViscosity_loop_overwrites(e, d, s, g) ==
    LET etai == RMul(e.nu, d.rho)
        etaj == RMul(e.nu, s.rho)
        etaij == RDiv(RMul(R(4), RMul(etai, etaj)), RAdd(etai, etaj))
        xdotdij == Dot3(g.DWIJ, g.XIJ)
        tmp == RDiv(s.m, RMul(d.rho, s.rho))
        fac == RDiv(RMul(RMul(tmp, etaij), xdotdij), RAdd(g.R2IJ, g.EPS))
    IN [d EXCEPT !.au = RMul(fac, g.VIJ[1]),
                 !.av = RMul(fac, g.VIJ[2]),
                 !.aw = RMul(fac, g.VIJ[3])]

MomentumEquationViscosity_loop(e, d, s, g) ==
    LET etai == RMul(e.nu, d.rho)
        etaj == RMul(e.nu, s.rho)
        etaij == RDiv(RMul(R(4), RMul(etai, etaj)), RAdd(etai, etaj))
        xdotdij == Dot3(g.DWIJ, g.XIJ)
        tmp == RDiv(s.m, RMul(d.rho, s.rho))
        fac == RDiv(RMul(RMul(tmp, etaij), xdotdij), RAdd(g.R2IJ, g.EPS))
    IN [d EXCEPT !.au = RAdd(d.au, RMul(fac, g.VIJ[1])),
                 !.av = RAdd(d.av, RMul(fac, g.VIJ[2])),
                 !.aw = RAdd(d.aw, RMul(fac, g.VIJ[3]))]

SolidWallNoSlipBC_initialize(d) ==
    [d EXCEPT !.au = Zero, !.av = Zero, !.aw = Zero]

SolidWallNoSlipBC_loop_ghost_added(e, d, s, g) ==
    LET etai == RMul(e.nu, d.rho)
        etaj == RMul(e.nu, s.rho)
        etaij == RDiv(RMul(R(4), RMul(etai, etaj)), RAdd(etai, etaj))
        xdotdij == Dot3(g.DWIJ, g.XIJ)
        tmp == RDiv(s.m, RMul(d.rho, s.rho))
        fac == RDiv(RMul(RMul(tmp, etaij), xdotdij), RAdd(g.R2IJ, g.EPS))
    IN [d EXCEPT !.au = RAdd(d.au, RMul(fac, RAdd(d.u, s.ug))),
                 !.av = RAdd(d.av, RMul(fac, RAdd(d.v, s.vg))),
                 !.aw = RAdd(d.aw, RMul(fac, RAdd(d.w, s.wg)))]

SolidWallNoSlipBC_loop(e, d, s, g) ==
    LET etai == RMul(e.nu, d.rho)
        etaj == RMul(e.nu, s.rho)
        etaij == RDiv(RMul(R(4), RMul(etai, etaj)), RAdd(etai, etaj))
        xdotdij == Dot3(g.DWIJ, g.XIJ)
        tmp == RDiv(s.m, RMul(d.rho, s.rho))
        fac == RDiv(RMul(RMul(tmp, etaij), xdotdij), RAdd(g.R2IJ, g.EPS))
    IN [d EXCEPT !.au = RAdd(d.au, RMul(fac, RSub(d.u, s.ug))),
                 !.av = RAdd(d.av, RMul(fac, RSub(d.v, s.vg))),
                 !.aw = RAdd(d.aw, RMul(fac, RSub(d.w, s.wg)))]

SolidWallPressureBC_initialize(d) == [d EXCEPT !.p = Zero, !.wij = Zero]

SolidWallPressureBC_loop(e, d, s, g) ==
    LET gdotxij == RAdd(RAdd(RMul(RSub(e.gx, d.au), g.XIJ[1]),
                             RMul(RSub(e.gy, d.av), g.XIJ[2])),
                        RMul(RSub(e.gz, d.aw), g.XIJ[3]))
    IN [d EXCEPT !.p = RAdd(d.p, RAdd(RMul(s.p, g.WIJ),
                                      RMul(RMul(s.rho, gdotxij), g.WIJ))),
                 !.wij = RAdd(d.wij, g.WIJ)]

SolidWallPressureBC_divides(d) == RGtTenToMinus(d.wij, SolidWallPressureTolExp)

SolidWallPressureBC_density_b_outside(e, d) ==
    [d EXCEPT !.rho = RAdd(RMul(e.rho0, RDiv(d.p, e.p0)), e.b)]

SolidWallPressureBC_density(e, d) ==
    [d EXCEPT !.rho = RMul(e.rho0, RAdd(RDiv(d.p, e.p0), e.b))]

SolidWallPressureBC_post_loop(e, d) ==
    LET d1 == IF SolidWallPressureBC_divides(d)
              THEN [d EXCEPT !.p = RDiv(d.p, d.wij)]
              ELSE d
    IN SolidWallPressureBC_density(e, d1)

----------------------------------------------------------------------------
(* flow_past_cyl.py: the operators                                         *)

ExtrapolateUhat_initialize(d) == [d EXCEPT !.uhat = Zero, !.wij = Zero]

ExtrapolateUhat_loop(d, s, g) ==
    [d EXCEPT !.uhat = RAdd(d.uhat, RMul(s.uhat, g.WIJ)),
              !.wij = RAdd(d.wij, g.WIJ)]

ExtrapolateUhat_divides(d) == RGtTenToMinus(d.wij, ExtrapolateUhatTolExp)

ExtrapolateUhat_post_loop(d) ==
    IF ExtrapolateUhat_divides(d)
    THEN [d EXCEPT !.uhat = RDiv(d.uhat, d.wij)]
    ELSE d

ResetInletVelocity_loop(e, d) == [d EXCEPT !.u = e.U, !.v = e.V, !.w = e.W]

----------------------------------------------------------------------------
(* transport_velocity_free_of_NumberDensity.py: the summation, continuity  *)
(* and artificial viscosity / stress operators                             *)

VolumeSummation_initialize(d) == [d EXCEPT !.V = Zero]

VolumeSummation_loop(d, g) == [d EXCEPT !.V = RAdd(d.V, g.WIJ)]

SummationDensity_initialize(d) == [d EXCEPT !.rho = Zero]

SummationDensity_loop(d, s, g) == [d EXCEPT !.rho = RAdd(d.rho, RMul(s.m, g.WIJ))]

ContinuityEquation_initialize(d) == [d EXCEPT !.arho = Zero]

ContinuityEquation_loop(d, s, g) ==
    LET vijdotdwij == Dot3(g.VIJ, g.DWIJ)
    IN [d EXCEPT !.arho = RAdd(d.arho,
                               RDiv(RMul(RMul(d.rho, vijdotdwij), s.m), s.rho))]

\* ContinuitySolid defines loop only
ContinuitySolid_loop(d, s, g) ==
    LET Vj == RDiv(s.m, s.rho)
        rhoi == d.rho
        uij == RSub(d.u, s.ug)
        vij == RSub(d.v, s.vg)
        wij == RSub(d.w, s.wg)
        vij_dot_dwij == Dot3(<<uij, vij, wij>>, g.DWIJ)
    IN [d EXCEPT !.arho = RAdd(d.arho, RMul(RMul(rhoi, Vj), vij_dot_dwij))]

MomentumEquationArtificialViscosity_initialize(d) ==
    [d EXCEPT !.au = Zero, !.av = Zero, !.aw = Zero]

MomentumEquationArtificialViscosity_loop(e, d, s, g) ==
    LET vijdotrij == Dot3(g.VIJ, g.XIJ)
        muij == RDiv(RMul(g.HIJ, vijdotrij), RAdd(g.R2IJ, g.EPS))
        piij == IF RLt(vijdotrij, Zero)
                THEN RMul(RMul(s.m, RMul(RMul(RNeg(e.alpha), e.c0), muij)), g.RHOIJ1)
                ELSE Zero
    IN [d EXCEPT !.au = RAdd(d.au, RMul(RNeg(piij), g.DWIJ[1])),
                 !.av = RAdd(d.av, RMul(RNeg(piij), g.DWIJ[2])),
                 !.aw = RAdd(d.aw, RMul(RNeg(piij), g.DWIJ[3]))]

\* pysph.sph.wc.linalg.mat_vec_mult for n = 3: the product of a 3 x 3 matrix,
\* stored by rows, with a vector
mat_vec_mult(a, b) ==
    [i \in 1..3 |-> RAdd(RAdd(RMul(a[3 * (i - 1) + 1], b[1]),
                              RMul(a[3 * (i - 1) + 2], b[2])),
                         RMul(a[3 * (i - 1) + 3], b[3]))]

MomentumEquationArtificialStress_initialize(d) ==
    [d EXCEPT !.au = Zero, !.av = Zero, !.aw = Zero]

MomentumEquationArtificialStress_loop(d, s, g) ==
    LET rhoi == d.rho
        rhoj == s.rho
        ui == <<d.u, d.v, d.w>>
        uj == <<s.u, s.v, s.w>>
        uidif == <<RSub(d.uhat, d.u), RSub(d.vhat, d.v), RSub(d.what, d.w)>>
        ujdif == <<RSub(s.uhat, s.u), RSub(s.vhat, s.v), RSub(s.what, s.w)>>
        Aij == [n \in 1..9 |->
                  LET i == ((n - 1) \div 3) + 1
                      j == ((n - 1) % 3) + 1
                  IN RAdd(RDiv(RMul(ui[i], uidif[j]), rhoi),
                          RDiv(RMul(uj[i], ujdif[j]), rhoj))]
        res == mat_vec_mult(Aij, g.DWIJ)
    IN [d EXCEPT !.au = RAdd(d.au, RMul(s.m, res[1])),
                 !.av = RAdd(d.av, RMul(s.m, res[2])),
                 !.aw = RAdd(d.aw, RMul(s.m, res[3]))]

----------------------------------------------------------------------------
(* flow_past_cyl.py: the operator lists the application assembles          *)

ForceEvaluatorStages_momentum_first ==
    << [dest |-> "solid", real |-> TRUE,
        equations |-> << [name |-> "MomentumEquationPressureGradient", dest |-> "solid",
                          sources |-> {"fluid", "solid"}, pb |-> R(p0),
                          gx |-> Zero, gy |-> Zero, gz |-> Zero, tdamp |-> Zero],
                         [name |-> "MomentumEquationViscosity", dest |-> "solid",
                          sources |-> {"fluid", "solid"}, nu |-> nu0],
                         [name |-> "SolidWallNoSlipBC", dest |-> "solid",
                          sources |-> {"fluid"}, nu |-> nu0] >>],
       [dest |-> "fluid", real |-> FALSE,
        equations |-> << [name |-> "SetWallVelocity", dest |-> "fluid",
                          sources |-> {"solid"}] >>] >>

\* _get_force_evaluator: two groups, evaluated in this order
ForceEvaluatorStages ==
    << [dest |-> "fluid", real |-> FALSE,
        equations |-> << [name |-> "SetWallVelocity", dest |-> "fluid",
                          sources |-> {"solid"}] >>],
       [dest |-> "solid", real |-> TRUE,
        equations |-> << [name |-> "MomentumEquationPressureGradient", dest |-> "solid",
                          sources |-> {"fluid", "solid"}, pb |-> R(p0),
                          gx |-> Zero, gy |-> Zero, gz |-> Zero, tdamp |-> Zero],
                         [name |-> "MomentumEquationViscosity", dest |-> "solid",
                          sources |-> {"fluid", "solid"}, nu |-> nu0],
                         [name |-> "SolidWallNoSlipBC", dest |-> "solid",
                          sources |-> {"fluid"}, nu |-> nu0] >>] >>

\* _create_inlet_outlet_manager: the inlet's operator list, one stage on the
\* inlet collection.  SolidWallPressureBC is built with the scheme's reference
\* density and pressure and the defaults b = 1, g = 0.
InletStages ==
    << [dest |-> "inlet", real |-> TRUE,
        equations |-> << [name |-> "ResetInletVelocity", dest |-> "inlet",
                          sources |-> {}, U |-> R(umax), V |-> Zero, W |-> Zero],
                         [name |-> "SolidWallPressureBC", dest |-> "inlet",
                          sources |-> {"fluid"}, rho0 |-> R(rho), p0 |-> R(p0),
                          b |-> One, gx |-> Zero, gy |-> Zero, gz |-> Zero],
                         [name |-> "ExtrapolateUhat", dest |-> "inlet",
                          sources |-> {"fluid"}] >>] >>

Stages(pr) == IF pr = "force" THEN ForceEvaluatorStages ELSE InletStages

\* sph_eval.evaluate() is called without a time: t = 0
EvalTime == Zero

----------------------------------------------------------------------------
(* The evaluation engine: initialize, accumulate over the neighbours,      *)
(* finalize, per destination particle, stage after stage                   *)

OpInitialize(e, d) ==
    CASE e.name = "SetWallVelocity" -> SetWallVelocity_initialize(d)
      [] e.name = "MomentumEquationPressureGradient" ->
            MomentumEquationPressureGradient_initialize(d)
      [] e.name = "MomentumEquationViscosity" -> MomentumEquationViscosity_initialize(d)
      [] e.name = "SolidWallNoSlipBC" -> SolidWallNoSlipBC_initialize(d)
      [] e.name = "SolidWallPressureBC" -> SolidWallPressureBC_initialize(d)
      [] e.name = "ExtrapolateUhat" -> ExtrapolateUhat_initialize(d)
      [] e.name = "VolumeSummation" -> VolumeSummation_initialize(d)
      [] e.name = "SummationDensity" -> SummationDensity_initialize(d)
      [] e.name = "ContinuityEquation" -> ContinuityEquation_initialize(d)
      [] e.name = "MomentumEquationArtificialViscosity" ->
            MomentumEquationArtificialViscosity_initialize(d)
      [] e.name = "MomentumEquationArtificialStress" ->
            MomentumEquationArtificialStress_initialize(d)
      [] OTHER -> d

OpLoop(e, d, s, g) ==
    CASE e.name = "SetWallVelocity" -> SetWallVelocity_loop(d, s, g)
      [] e.name = "MomentumEquationPressureGradient" ->
            MomentumEquationPressureGradient_loop(e, d, s, g)
      [] e.name = "MomentumEquationViscosity" -> MomentumEquationViscosity_loop(e, d, s, g)
      [] e.name = "SolidWallNoSlipBC" -> SolidWallNoSlipBC_loop(e, d, s, g)
      [] e.name = "SolidWallPressureBC" -> SolidWallPressureBC_loop(e, d, s, g)
      [] e.name = "ExtrapolateUhat" -> ExtrapolateUhat_loop(d, s, g)
      [] e.name = "ResetInletVelocity" -> ResetInletVelocity_loop(e, d)
      [] e.name = "StateEquation" -> StateEquation_loop(e, d)
      [] e.name = "VolumeFromMassDensity" -> VolumeFromMassDensity_loop(d)
      [] e.name = "VolumeSummation" -> VolumeSummation_loop(d, g)
      [] e.name = "SummationDensity" -> SummationDensity_loop(d, s, g)
      [] e.name = "ContinuityEquation" -> ContinuityEquation_loop(d, s, g)
      [] e.name = "ContinuitySolid" -> ContinuitySolid_loop(d, s, g)
      [] e.name = "MomentumEquationArtificialViscosity" ->
            MomentumEquationArtificialViscosity_loop(e, d, s, g)
      [] e.name = "MomentumEquationArtificialStress" ->
            MomentumEquationArtificialStress_loop(d, s, g)
      [] OTHER -> d

OpPostLoop(e, d, t) ==
    CASE e.name = "SetWallVelocity" -> SetWallVelocity_post_loop(d)
      [] e.name = "MomentumEquationPressureGradient" ->
            MomentumEquationPressureGradient_post_loop(e, d, t)
      [] e.name = "SolidWallPressureBC" -> SolidWallPressureBC_post_loop(e, d)
      [] e.name = "ExtrapolateUhat" -> ExtrapolateUhat_post_loop(d)
      [] OTHER -> d

\* whether the operator's finalize divides by the accumulated weight
OpDivides(e, d) ==
    CASE e.name = "SetWallVelocity" -> SetWallVelocity_divides(d)
      [] e.name = "SolidWallPressureBC" -> SolidWallPressureBC_divides(d)
      [] e.name = "ExtrapolateUhat" -> ExtrapolateUhat_divides(d)
      [] OTHER -> FALSE

\* initialize of every operator of the stage, in list order
RECURSIVE InitializeAll(_, _, _)
InitializeAll(eqs, i, d) ==
    IF i > Len(eqs) THEN d ELSE InitializeAll(eqs, i + 1, OpInitialize(eqs[i], d))

\* whether the operator's accumulate runs for a neighbour of collection c
Interacts(e, c) == c \in e.sources

\* accumulate of every operator of the stage for one pair; self says that the
\* source particle is the destination particle itself
RECURSIVE AccumulateAll(_, _, _, _, _, _, _)
AccumulateAll(eqs, i, d, s, self, c, g) ==
    IF i > Len(eqs) THEN d
    ELSE AccumulateAll(eqs, i + 1,
                       IF Interacts(eqs[i], c)
                       THEN OpLoop(eqs[i], d, IF self THEN d ELSE s, g)
                       ELSE d,
                       s, self, c, g)

\* finalize of every operator of the stage, in list order
RECURSIVE FinalizeAll(_, _, _, _)
FinalizeAll(eqs, i, d, t) ==
    IF i > Len(eqs) THEN d ELSE FinalizeAll(eqs, i + 1, OpPostLoop(eqs[i], d, t), t)

\* the operators whose finalize divides, each seeing what the earlier ones left
RECURSIVE DividingOps(_, _, _, _)
DividingOps(eqs, i, d, t) ==
    IF i > Len(eqs) THEN {}
    ELSE (IF OpDivides(eqs[i], d) THEN {eqs[i].name} ELSE {})
         \cup DividingOps(eqs, i + 1, OpPostLoop(eqs[i], d, t), t)

\* the pair geometry the neighbour provider hands to accumulate
PairGeometry(n, d, s) ==
    [WIJ |-> n.W, DWIJ |-> n.DW, XIJ |-> n.X,
     R2IJ |-> Dot3(n.X, n.X),
     HIJ |-> n.H,
     RHOIJ1 |-> RInv(RMul(Q(1, 2), RAdd(d.rho, s.rho))),
     EPS |-> RMul(Q(1, 100), RMul(n.H, n.H)),
     VIJ |-> <<RSub(d.u, s.u), RSub(d.v, s.v), RSub(d.w, s.w)>>]

\* the source collections named in a stage, in a fixed order
CollOrder == <<"fluid", "solid", "inlet">>

StageSources(st) == UNION {st.equations[i].sources : i \in 1..Len(st.equations)}

RECURSIVE SelectColl(_, _)
SelectColl(ns, c) ==
    IF ns = <<>> THEN <<>>
    ELSE IF Head(ns).coll = c THEN <<Head(ns)>> \o SelectColl(Tail(ns), c)
         ELSE SelectColl(Tail(ns), c)

RECURSIVE NeighboursFrom(_, _, _)
NeighboursFrom(ns, srcs, i) ==
    IF i > Len(CollOrder) THEN <<>>
    ELSE (IF CollOrder[i] \in srcs THEN SelectColl(ns, CollOrder[i]) ELSE <<>>)
         \o NeighboursFrom(ns, srcs, i + 1)

\* the pairs the stage visits for destination particle di
StageNeighbours(st, di) == NeighboursFrom(nbr[<<st.dest, di>>], StageSources(st), 1)

----------------------------------------------------------------------------
(* Bounds of the model and the particle configurations Init draws          *)

NFluid == 2
NBoundary == 1
MaxVel == 1
MaxPressure == 1
MaxGeom == 2
MaxCycles == 2

\* a value no operator computes here, standing for what an earlier cycle left
Junk == R(7)

Vel(k) == <<R(k), R(2 * k), R(3 * k)>>

\* a particle as get_particle_array and setup_properties create it, with
\* velocity Vel(k), transport velocity k + 1, pressure 10 * q, and acc in every
\* property an operator writes
Particle(k, q, acc) ==
    [u |-> Vel(k)[1], v |-> Vel(k)[2], w |-> Vel(k)[3],
     uhat |-> R(k + 1),
     rho |-> R(rho), m |-> m0, V |-> RDiv(R(rho), m0), p |-> R(10 * q),
     uf |-> acc, vf |-> acc, wf |-> acc,
     ug |-> acc, vg |-> acc, wg |-> acc,
     wij |-> acc,
     au |-> acc, av |-> acc, aw |-> acc,
     auhat |-> acc, avhat |-> acc, awhat |-> acc]

\* pair geometry number k >= 1 as seen from the first particle of the pair
GeomW(k) == Q(k, 2)
GeomX(k) == <<Q(k, 10), Q(1, 10), Zero>>
GeomH == One
GeomDW(k) == <<R(-k), R(-1), Zero>>
Neg3(a) == <<RNeg(a[1]), RNeg(a[2]), RNeg(a[3])>>

\* a particle is its own neighbour at zero separation
SelfPair(c, i) == [coll |-> c, idx |-> i, W |-> Two, H |-> GeomH,
                   X |-> <<Zero, Zero, Zero>>, DW |-> <<Zero, Zero, Zero>>]

RECURSIVE LinkedFluid(_, _, _)
LinkedFluid(link, b, f) ==
    IF f > NFluid THEN <<>>
    ELSE (IF link[<<f, b>>] > 0
          THEN << [coll |-> "fluid", idx |-> f, W |-> GeomW(link[<<f, b>>]), H |-> GeomH,
                   X |-> Neg3(GeomX(link[<<f, b>>])),
                   DW |-> Neg3(GeomDW(link[<<f, b>>]))] >>
          ELSE <<>>) \o LinkedFluid(link, b, f + 1)

RECURSIVE LinkedBoundary(_, _, _, _)
LinkedBoundary(link, c, f, b) ==
    IF b > NBoundary THEN <<>>
    ELSE (IF link[<<f, b>>] > 0
          THEN << [coll |-> c, idx |-> b, W |-> GeomW(link[<<f, b>>]), H |-> GeomH,
                   X |-> GeomX(link[<<f, b>>]),
                   DW |-> GeomDW(link[<<f, b>>])] >>
          ELSE <<>>) \o LinkedBoundary(link, c, f, b + 1)

\* the neighbour lists for fluid particles and the particles of boundary
\* collection c, link[<<f, b>>] = 0 meaning that f and b are out of range
Neighbours(link, c) ==
    [x \in ({"fluid"} \X (1..NFluid)) \cup ({c} \X (1..NBoundary)) |->
        IF x[1] = "fluid"
        THEN LinkedBoundary(link, c, x[2], 1)
        ELSE LinkedFluid(link, x[2], 1) \o <<SelfPair(c, x[2])>>]

Links == [(1..NFluid) \X (1..NBoundary) -> 0..MaxGeom]

StartPc == [stage |-> 1, phase |-> "initialize", d |-> 1, k |-> 1]

IdleEngine ==
    /\ pa = <<>> /\ nbr = <<>> /\ prog = "none" /\ pc = [phase |-> "idle"]
    /\ cycle = 0 /\ divs = {} /\ fin = {} /\ ghostReads = {}

IdleIO == io = <<>> /\ ioLast = <<>>

IdleCtor == ctor = <<>>

IdleFx == fx = <<>>

IdleStart == start = <<>>

BoundaryOf(pr) == IF pr = "force" THEN "solid" ELSE "inlet"

EngineInit ==
    /\ mode = "engine"
    /\ prog \in {"force", "inlet"}
    /\ \E acc \in {Zero, Junk} :
       \E fk \in [1..NFluid -> 0..MaxVel], fq \in [1..NFluid -> 0..MaxPressure],
          bk \in [1..NBoundary -> 0..MaxVel] :
          pa = [c \in {"fluid", BoundaryOf(prog)} |->
                  IF c = "fluid"
                  THEN [i \in 1..NFluid |-> Particle(fk[i], fq[i], acc)]
                  ELSE [i \in 1..NBoundary |-> Particle(bk[i], 0, acc)]]
    /\ \E link \in Links : nbr = Neighbours(link, BoundaryOf(prog))
    /\ pc = StartPc
    /\ cycle = 1
    /\ divs = {} /\ fin = {} /\ ghostReads = {}
    /\ IdleIO /\ IdleCtor /\ IdleFx /\ IdleStart

----------------------------------------------------------------------------
(* The engine's steps                                                      *)

CurStage == Stages(prog)[pc.stage]

Initialize ==
    /\ mode = "engine" /\ pc.phase = "initialize"
    /\ pa' = [pa EXCEPT ![CurStage.dest][pc.d] =
                  InitializeAll(CurStage.equations, 1, pa[CurStage.dest][pc.d])]
    /\ pc' = [pc EXCEPT !.phase = "accumulate", !.k = 1]
    /\ UNCHANGED <<mode, start, nbr, prog, cycle, divs, fin, ghostReads, io, ioLast, ctor, fx>>

ReadsGhost(st, c) ==
    \E i \in 1..Len(st.equations) :
        st.equations[i].name = "SolidWallNoSlipBC" /\ Interacts(st.equations[i], c)

Accumulate ==
    /\ mode = "engine" /\ pc.phase = "accumulate"
    /\ pc.k <= Len(StageNeighbours(CurStage, pc.d))
    /\ LET n == StageNeighbours(CurStage, pc.d)[pc.k]
           d == pa[CurStage.dest][pc.d]
           s == pa[n.coll][n.idx]
           self == n.coll = CurStage.dest /\ n.idx = pc.d
       IN /\ pa' = [pa EXCEPT ![CurStage.dest][pc.d] =
                        AccumulateAll(CurStage.equations, 1, d, s, self, n.coll,
                                      PairGeometry(n, d, s))]
          /\ ghostReads' = IF ReadsGhost(CurStage, n.coll)
                           THEN ghostReads \cup {[src |-> n.idx,
                                                  val |-> <<s.ug, s.vg, s.wg>>]}
                           ELSE ghostReads
    /\ pc' = [pc EXCEPT !.k = pc.k + 1]
    /\ UNCHANGED <<mode, start, nbr, prog, cycle, divs, fin, io, ioLast, ctor, fx>>

Finalize ==
    /\ mode = "engine" /\ pc.phase = "accumulate"
    /\ pc.k > Len(StageNeighbours(CurStage, pc.d))
    /\ LET d == pa[CurStage.dest][pc.d]
           d1 == FinalizeAll(CurStage.equations, 1, d, EvalTime)
       IN /\ pa' = [pa EXCEPT ![CurStage.dest][pc.d] = d1]
          /\ divs' = divs \cup {<<o, CurStage.dest, pc.d>> :
                                  o \in DividingOps(CurStage.equations, 1, d, EvalTime)}
          /\ fin' = fin \cup {[stage |-> pc.stage, coll |-> CurStage.dest, idx |-> pc.d,
                               ghost |-> <<d1.ug, d1.vg, d1.wg>>]}
    /\ pc' = IF pc.d < Len(pa[CurStage.dest])
             THEN [pc EXCEPT !.phase = "initialize", !.d = pc.d + 1, !.k = 1]
             ELSE IF pc.stage < Len(Stages(prog))
                  THEN [stage |-> pc.stage + 1, phase |-> "initialize", d |-> 1, k |-> 1]
                  ELSE [pc EXCEPT !.phase = "done"]
    /\ UNCHANGED <<mode, start, nbr, prog, cycle, ghostReads, io, ioLast, ctor, fx>>

\* the solver loop between two evaluation cycles: velocities have drifted
SolverStep ==
    /\ mode = "engine" /\ pc.phase = "done" /\ cycle < MaxCycles
    /\ \E k \in 0..MaxVel :
         pa' = [c \in DOMAIN pa |->
                  [i \in 1..Len(pa[c]) |->
                      IF i = 1
                      THEN [pa[c][i] EXCEPT !.u = Vel(k)[1], !.v = Vel(k)[2],
                                            !.w = Vel(k)[3]]
                      ELSE pa[c][i]]]
    /\ cycle' = cycle + 1
    /\ pc' = StartPc
    /\ divs' = {} /\ fin' = {} /\ ghostReads' = {}
    /\ UNCHANGED <<mode, start, nbr, prog, io, ioLast, ctor, fx>>

Next == Initialize \/ Accumulate \/ Finalize \/ SolverStep

Spec == EngineInit /\ [][Next]_vars

----------------------------------------------------------------------------
(* Properties of the staged evaluation                                     *)

HasOp(st, name) == \E i \in 1..Len(st.equations) : st.equations[i].name = name

Finalized(f) == pa[f.coll][f.idx]

\* C1: a destination particle with no neighbour in range keeps, after the
\* initialize/accumulate/finalize pass of SetWallVelocity, SolidWallPressureBC
\* or ExtrapolateUhat, the zero its initialize seeded in the weighted-average
\* property (uf, vf, wf; p; uhat), and its finalize performs no division by wij.
C1_NoNeighbourKeepsSeed ==
    mode = "engine" =>
    \A f \in fin :
        LET st == Stages(prog)[f.stage]
            d == Finalized(f)
        IN StageNeighbours(st, f.idx) = <<>> =>
           /\ HasOp(st, "SetWallVelocity") =>
                /\ d.uf = Zero /\ d.vf = Zero /\ d.wf = Zero
                /\ <<"SetWallVelocity", f.coll, f.idx>> \notin divs
           /\ HasOp(st, "SolidWallPressureBC") =>
                /\ d.p = Zero
                /\ <<"SolidWallPressureBC", f.coll, f.idx>> \notin divs
           /\ HasOp(st, "ExtrapolateUhat") =>
                /\ d.uhat = Zero
                /\ <<"ExtrapolateUhat", f.coll, f.idx>> \notin divs

\* a fluid particle without solid neighbour has been through SetWallVelocity and
\* holds uf = 0, while the next one still holds what the previous cycle left
C1_Witness ==
    /\ mode = "engine" /\ prog = "force" /\ pc.stage = 1 /\ pc.d = 2
    /\ pc.phase = "initialize"
    /\ \E f \in fin : f.idx = 1 /\ StageNeighbours(Stages(prog)[1], 1) = <<>>
    /\ pa["fluid"][1].uf = Zero /\ pa["fluid"][1].wij = Zero
    /\ pa["fluid"][2].uf = Junk

\* C2: after an evaluation cycle of the inlet operator list every inlet particle
\* has velocity (U, V, W) = (umax, 0, 0).
C2_InletVelocityReset ==
    (mode = "engine" /\ prog = "inlet" /\ pc.phase = "done") =>
    \A i \in 1..Len(pa["inlet"]) :
        /\ pa["inlet"][i].u = R(umax)
        /\ pa["inlet"][i].v = Zero
        /\ pa["inlet"][i].w = Zero

\* C4: in the force evaluator no step of the momentum stage runs before
\* SetWallVelocity has finalized every fluid particle, and every ghost velocity
\* SolidWallNoSlipBC reads from a source is the one SetWallVelocity finalized for
\* that particle in the same cycle.
C4_StagesInOrder ==
    (mode = "engine" /\ prog = "force") =>
    /\ \A r \in ghostReads :
          \E f \in fin : /\ HasOp(Stages(prog)[f.stage], "SetWallVelocity")
                         /\ f.coll = "fluid" /\ f.idx = r.src /\ f.ghost = r.val
    /\ (pc.phase # "done" /\ HasOp(CurStage, "SolidWallNoSlipBC")) =>
          \A i \in 1..Len(pa["fluid"]) :
              \E f \in fin : /\ HasOp(Stages(prog)[f.stage], "SetWallVelocity")
                             /\ f.coll = "fluid" /\ f.idx = i

\* in the second cycle SolidWallNoSlipBC has read a ghost velocity that is not
\* the one the particle started the run with
C4_Witness ==
    /\ mode = "engine" /\ prog = "force" /\ cycle = 2
    /\ \E r \in ghostReads : r.val[1] # Junk /\ r.val[1] # Zero

\* C8: after SetWallVelocity's finalize, ug + uf = 2u component-wise, and a
\* particle whose filtered velocity equals its prescribed velocity gets that
\* velocity as ghost velocity.
C8_GhostVelocity ==
    mode = "engine" =>
    \A f \in fin :
        HasOp(Stages(prog)[f.stage], "SetWallVelocity") =>
        LET d == Finalized(f)
        IN /\ RAdd(d.ug, d.uf) = RAdd(d.u, d.u)
           /\ RAdd(d.vg, d.vf) = RAdd(d.v, d.v)
           /\ RAdd(d.wg, d.wf) = RAdd(d.w, d.w)
           /\ (d.uf = d.u /\ d.vf = d.v /\ d.wf = d.w) =>
                 (d.ug = d.u /\ d.vg = d.v /\ d.wg = d.w)

\* a moving particle whose neighbours move with it: the filtered velocity, a
\* proper weighted average, equals the prescribed velocity
C8_Witness ==
    /\ mode = "engine"
    /\ \E f \in fin :
          /\ HasOp(Stages(prog)[f.stage], "SetWallVelocity")
          /\ Finalized(f).wij # Zero /\ Finalized(f).wij # One
          /\ Finalized(f).u # Zero
          /\ Finalized(f).uf = Finalized(f).u
          /\ Finalized(f).ug = Finalized(f).u

\* sum of W_ab over the pairs, each counted once
RECURSIVE SumW(_)
SumW(ns) == IF ns = <<>> THEN Zero ELSE RAdd(Head(ns).W, SumW(Tail(ns)))

\* sum of uhat_b * W_ab over the pairs
RECURSIVE SumUhatW(_)
SumUhatW(ns) ==
    IF ns = <<>> THEN Zero
    ELSE RAdd(RMul(pa[Head(ns).coll][Head(ns).idx].uhat, Head(ns).W), SumUhatW(Tail(ns)))

\* the pressure numerator of Eq. (27) for destination d, over the pairs
RECURSIVE SumPressureW(_, _, _)
SumPressureW(e, d, ns) ==
    IF ns = <<>> THEN Zero
    ELSE LET n == Head(ns)
             s == pa[n.coll][n.idx]
             gdotxij == Dot3(<<RSub(e.gx, d.au), RSub(e.gy, d.av), RSub(e.gz, d.aw)>>, n.X)
         IN RAdd(RMul(RAdd(s.p, RMul(s.rho, gdotxij)), n.W), SumPressureW(e, d, Tail(ns)))

----------------------------------------------------------------------------
(* Operator construction: the __init__ methods.  Each stores its arguments *)
(* and calls Equation.__init__(dest, sources); none checks a value.        *)

MaxArg == 2

\* the numeric arguments a caller may pass, invalid ones included
Args == {R(n) : n \in -1..MaxArg}

NoError == "none"

StateEquation_init(a_p0, a_rho0, a_b) ==
    [cls |-> "StateEquation", raised |-> NoError,
     self |-> [b |-> a_b, p0 |-> a_p0, rho0 |-> a_rho0]]

SolidWallPressureBC_init(a_rho0, a_p0, a_b, a_gx, a_gy, a_gz) ==
    [cls |-> "SolidWallPressureBC", raised |-> NoError,
     self |-> [rho0 |-> a_rho0, p0 |-> a_p0, b |-> a_b,
               gx |-> a_gx, gy |-> a_gy, gz |-> a_gz]]

MomentumEquationViscosity_init(a_nu) ==
    [cls |-> "MomentumEquationViscosity", raised |-> NoError, self |-> [nu |-> a_nu]]

SolidWallNoSlipBC_init(a_nu) ==
    [cls |-> "SolidWallNoSlipBC", raised |-> NoError, self |-> [nu |-> a_nu]]

MomentumEquationArtificialViscosity_init(a_c0, a_alpha) ==
    [cls |-> "MomentumEquationArtificialViscosity", raised |-> NoError,
     self |-> [alpha |-> a_alpha, c0 |-> a_c0]]

CtorInit ==
    /\ mode = "ctor"
    /\ ctor = [cls |-> "none", raised |-> NoError, self |-> <<>>]
    /\ IdleEngine /\ IdleIO /\ IdleFx /\ IdleStart

NewStateEquation ==
    /\ mode = "ctor"
    /\ \E a_p0 \in Args, a_rho0 \in Args, a_b \in {Zero, One} :
          ctor' = StateEquation_init(a_p0, a_rho0, a_b)
    /\ UNCHANGED <<mode, start, evars, iovars, fx>>

NewSolidWallPressureBC ==
    /\ mode = "ctor"
    /\ \E a_p0 \in Args, a_rho0 \in Args, a_b \in {Zero, One}, a_gy \in {Zero, R(-1)} :
          ctor' = SolidWallPressureBC_init(a_rho0, a_p0, a_b, Zero, a_gy, Zero)
    /\ UNCHANGED <<mode, start, evars, iovars, fx>>

NewMomentumEquationViscosity ==
    /\ mode = "ctor"
    /\ \E a_nu \in Args : ctor' = MomentumEquationViscosity_init(a_nu)
    /\ UNCHANGED <<mode, start, evars, iovars, fx>>

NewSolidWallNoSlipBC ==
    /\ mode = "ctor"
    /\ \E a_nu \in Args : ctor' = SolidWallNoSlipBC_init(a_nu)
    /\ UNCHANGED <<mode, start, evars, iovars, fx>>

NewMomentumEquationArtificialViscosity ==
    /\ mode = "ctor"
    /\ \E a_c0 \in Args, a_alpha \in Args :
          ctor' = MomentumEquationArtificialViscosity_init(a_c0, a_alpha)
    /\ UNCHANGED <<mode, start, evars, iovars, fx>>

CtorNext ==
    \/ NewStateEquation
    \/ NewSolidWallPressureBC
    \/ NewMomentumEquationViscosity
    \/ NewSolidWallNoSlipBC
    \/ NewMomentumEquationArtificialViscosity

SpecCtor == CtorInit /\ [][CtorNext]_vars

\* the constants the configuration surface declares invalid
InvalidConstants(c) ==
    \/ c.cls \in {"StateEquation", "SolidWallPressureBC"}
       /\ (c.self.rho0 = Zero \/ c.self.p0 = Zero)
    \/ c.cls \in {"MomentumEquationViscosity", "SolidWallNoSlipBC"}
       /\ RLt(c.self.nu, Zero)
    \/ c.cls = "MomentumEquationArtificialViscosity" /\ RLt(c.self.alpha, Zero)

\* C3: a constructor called with rho0 = 0 or p0 = 0 (StateEquation,
\* SolidWallPressureBC), negative nu (MomentumEquationViscosity, SolidWallNoSlipBC)
\* or negative alpha (MomentumEquationArtificialViscosity) raises a
\* ConfigurationError and returns no instance.
C3_InvalidConstantRejected ==
    (mode = "ctor" /\ ctor.cls # "none" /\ InvalidConstants(ctor)) =>
        ctor.raised = "ConfigurationError"

----------------------------------------------------------------------------
(* The open-boundary manager.  Positions are integers in units of dx / 2,  *)
(* so the lattices of _create_inlet, _create_fluid and _create_outlet sit  *)
(* on the odd numbers; only x matters to the two planes.                   *)

n_inlet == 10
n_outlet == 10

\* dx / 2 units per unit of length: 2 * nx / diameter
UnitsPerLength == (2 * nx_default) \div diameter

\* one inter-particle spacing
Spacing == 2

InletInfo_facing_downstream ==
    [pa_name |-> "inlet", normal |-> <<1, 0, 0>>, refpoint |-> <<0, 0, 0>>]

InletInfo_shifted_upstream ==
    [pa_name |-> "inlet", normal |-> <<-1, 0, 0>>,
     refpoint |-> <<-Spacing, 0, 0>>]

\* _create_inlet_outlet_manager: the two boundary-plane descriptors
InletInfo ==
    [pa_name |-> "inlet", normal |-> <<-1, 0, 0>>, refpoint |-> <<0, 0, 0>>]

OutletInfo ==
    [pa_name |-> "outlet", normal |-> <<1, 0, 0>>,
     refpoint |-> <<l_tunnel * UnitsPerLength, 0, 0>>]

\* the depth of the outlet region, n_outlet layers
OutletDepth == n_outlet * Spacing

\* signed distance of x from the plane along its outward normal
OutwardDistance(info, x) == (x - info.refpoint[1]) * info.normal[1]

\* an inlet particle has crossed when it is past the plane along the inward normal
InletCrossed(q) == -OutwardDistance(InletInfo, q.x) > 0

\* a fluid particle has left when it is past the outlet plane
OutletCrossed(q) == OutwardDistance(OutletInfo, q.x) > 0

\* an outlet particle is deleted past the maximum outlet depth
OutletExpired(q) == OutwardDistance(OutletInfo, q.x) > OutletDepth

RECURSIVE MinX(_)
MinX(sq) ==
    IF Len(sq) = 1 THEN sq[1].x
    ELSE LET r == MinX(Tail(sq)) IN IF sq[1].x < r THEN sq[1].x ELSE r

\* the replacements for the crossed inlet particles: the j-th takes the lattice
\* position j spacings upstream of the rearmost inlet particle
Replacements(crossed, back, firstId) ==
    [j \in 1..Len(crossed) |->
        [crossed[j] EXCEPT !.id = firstId + j - 1, !.x = back - j * Spacing]]

\* advance(collections): reclassify from the current positions
AdvanceResult(b) ==
    LET NotCrossed(q) == ~InletCrossed(q)
        NotLeft(q) == ~OutletCrossed(q)
        NotExpired(q) == ~OutletExpired(q)
        crossed == SelectSeq(b.inlet, InletCrossed)
        fluid1 == b.fluid \o crossed
        left == SelectSeq(fluid1, OutletCrossed)
    IN [b EXCEPT
          !.inlet = SelectSeq(b.inlet, NotCrossed)
                    \o Replacements(crossed, MinX(b.inlet), b.nextId),
          !.fluid = SelectSeq(fluid1, NotLeft),
          !.outlet = SelectSeq(b.outlet \o left, NotExpired),
          !.nextId = b.nextId + Len(crossed)]

MaxMoves == 4
MaxMove == 2

NInletLayers == 2

IOParticle(i, pos) == [id |-> i, x |-> pos, u |-> umax, uhat |-> umax, m |-> m0]

\* the inlet layers next to the inlet plane, the first fluid layer, the two
\* last fluid layers, and the first and the last outlet layer
IOInit ==
    /\ mode = "io"
    /\ io = [inlet |-> [i \in 1..NInletLayers |->
                           IOParticle(i, 1 - (NInletLayers + 1 - i) * Spacing)],
             fluid |-> <<IOParticle(NInletLayers + 1, 1),
                         IOParticle(NInletLayers + 2, l_tunnel * UnitsPerLength - 3),
                         IOParticle(NInletLayers + 3, l_tunnel * UnitsPerLength - 1)>>,
             outlet |-> <<IOParticle(NInletLayers + 4, l_tunnel * UnitsPerLength + 1),
                          IOParticle(NInletLayers + 5,
                                     l_tunnel * UnitsPerLength + OutletDepth - 1)>>,
             nextId |-> NInletLayers + 6, moves |-> 0]
    /\ ioLast = [fresh |-> FALSE, pre |-> <<>>]
    /\ IdleEngine /\ IdleCtor /\ IdleFx /\ IdleStart

Shift(sq, dist) == [i \in 1..Len(sq) |-> [sq[i] EXCEPT !.x = sq[i].x + dist]]

\* the solver loop integrates the positions: every particle moves downstream
Move ==
    /\ mode = "io" /\ io.moves < MaxMoves
    /\ \E dist \in 0..MaxMove :
          io' = [io EXCEPT !.inlet = Shift(io.inlet, dist),
                           !.fluid = Shift(io.fluid, dist),
                           !.outlet = Shift(io.outlet, dist),
                           !.moves = io.moves + 1]
    /\ ioLast' = [ioLast EXCEPT !.fresh = FALSE]
    /\ UNCHANGED <<mode, start, evars, ctor, fx>>

Advance ==
    /\ mode = "io"
    /\ io' = AdvanceResult(io)
    /\ ioLast' = [fresh |-> TRUE, pre |-> io]
    /\ UNCHANGED <<mode, start, evars, ctor, fx>>

IONext == Move \/ Advance

SpecIO == IOInit /\ [][IONext]_vars

Ids(sq) == {sq[i].id : i \in 1..Len(sq)}
Members(sq) == {sq[i] : i \in 1..Len(sq)}

\* the inlet particles past the plane x = 0 of flow_past_cyl.py, line 240
PastInletPlane(b) == {q \in Members(b.inlet) : q.x > 0}

\* C5: when an advance call returns, the inlet collection has the population it
\* had before the call, and the particles the fluid collection has gained are
\* exactly the inlet particles that had crossed the inlet plane, carried over
\* unchanged; the inlet population is the same after any sequence of calls.
C5_InletReplenished ==
    mode = "io" =>
    /\ Len(io.inlet) = NInletLayers
    /\ ioLast.fresh =>
         LET pre == ioLast.pre
         IN /\ Len(io.inlet) = Len(pre.inlet)
            /\ Ids(io.fluid) \ Ids(pre.fluid) = Ids(SelectSeq(pre.inlet, LAMBDA q : q.x > 0))
            /\ PastInletPlane(pre) \subseteq Members(io.fluid)
            /\ Cardinality(Ids(io.fluid) \ Ids(pre.fluid)) = Cardinality(PastInletPlane(pre))

\* an advance call has found two inlet particles past the plane
C5_Witness ==
    /\ mode = "io" /\ ioLast.fresh
    /\ Cardinality(PastInletPlane(ioLast.pre)) = 2
    /\ Len(io.inlet) = Len(ioLast.pre.inlet)
    /\ Len(io.fluid) = Len(ioLast.pre.fluid) + 2

\* no particle has crossed: the planes x = 0 and x = l_tunnel and the outlet depth
NothingCrossed(b) ==
    /\ \A q \in Members(b.inlet) : q.x <= 0
    /\ \A q \in Members(b.fluid) : q.x <= l_tunnel * UnitsPerLength
    /\ \A q \in Members(b.outlet) : q.x <= l_tunnel * UnitsPerLength + n_outlet * Spacing

\* C6: an advance call made when no particle has crossed its plane leaves the
\* inlet, fluid and outlet collections as they were: same particles, same indices.
C6_NoCrossingNoChange ==
    (mode = "io" /\ ioLast.fresh /\ NothingCrossed(ioLast.pre)) =>
        /\ io.inlet = ioLast.pre.inlet
        /\ io.fluid = ioLast.pre.fluid
        /\ io.outlet = ioLast.pre.outlet

\* an advance call after the particles have moved, none of them across a plane
C6_Witness ==
    /\ mode = "io" /\ ioLast.fresh /\ NothingCrossed(ioLast.pre)
    /\ ioLast.pre.moves > 0
    /\ \E q \in Members(ioLast.pre.inlet) : q.x = 0
    /\ io.inlet = ioLast.pre.inlet

----------------------------------------------------------------------------
(* Single operators and single-operator stage passes on drawn inputs       *)

\* one stage pass for one destination particle d over the pairs (source record
\* and neighbour entry): initialize, accumulate per pair, finalize
RECURSIVE AccumulatePairs(_, _, _, _)
AccumulatePairs(eqs, d, pairs, i) ==
    IF i > Len(pairs) THEN d
    ELSE AccumulatePairs(eqs,
                         AccumulateAll(eqs, 1, d, pairs[i].s, FALSE, pairs[i].n.coll,
                                       PairGeometry(pairs[i].n, d, pairs[i].s)),
                         pairs, i + 1)

StagePass(eqs, d, pairs, t) ==
    FinalizeAll(eqs, 1, AccumulatePairs(eqs, InitializeAll(eqs, 1, d), pairs, 1), t)

MaxNbrs == 2
MaxRho == 2

\* source particle with velocity index k and pressure index q, at geometry number j
FxPair(k, q, j) ==
    [s |-> Particle(k, q, Junk),
     n |-> [coll |-> "fluid", idx |-> j, W |-> GeomW(j), H |-> GeomH,
            X |-> GeomX(j), DW |-> GeomDW(j)]]

\* neighbour lists: per neighbour a pressure index and a geometry number
FxNbrChoices ==
    UNION {[1..n -> (0..MaxPressure) \X (1..MaxGeom)] : n \in 0..MaxNbrs}

FxPairs(ch, k) == [i \in 1..Len(ch) |-> FxPair(k, ch[i][1], ch[i][2])]

\* the same neighbours with other pressures
FxRepressured(pairs) ==
    [i \in 1..Len(pairs) |-> [pairs[i] EXCEPT !.s.p = RAdd(pairs[i].s.p, R(5))]]

PGOp(a_pb, a_g, a_tdamp) ==
    [name |-> "MomentumEquationPressureGradient", dest |-> "fluid", sources |-> {"fluid"},
     pb |-> a_pb, gx |-> a_g[1], gy |-> a_g[2], gz |-> a_g[3], tdamp |-> a_tdamp]

ViscOp(a_nu) ==
    [name |-> "MomentumEquationViscosity", dest |-> "fluid", sources |-> {"fluid"},
     nu |-> a_nu]

\* times, in sixths of the damping time 6, at which the half-cosine is rational
FxTimes == {R(0), R(2), R(3), R(4), R(6), R(7)}

FxGravity == {<<Zero, Zero, Zero>>, <<Zero, R(-1), Zero>>, <<R(3), R(-2), One>>}

\* StateEquation then the back-solve of SolidWallPressureBC, with the same constants
FxInitEos ==
    \E r \in 0..(2 * MaxRho), a_rho0 \in {R(rho), One, R(-3)},
       a_p0 \in {R(p0), R(7), Q(-1, 3)}, a_b \in {Zero, One} :
        fx = [kind |-> "eos", step |-> "drawn",
              e |-> [name |-> "StateEquation", dest |-> "fluid", sources |-> {},
                     p0 |-> a_p0, rho0 |-> a_rho0, b |-> a_b],
              d |-> [Particle(0, 0, Junk) EXCEPT !.rho = RMul(Q(r, 2), R(rho))],
              out |-> Particle(0, 0, Junk)]

\* two passes of MomentumEquationPressureGradient that differ in one input
FxInitPG ==
    \E ch \in FxNbrChoices, q \in 0..MaxPressure, vary \in {"pb", "p", "g", "t"},
       g1 \in FxGravity, g2 \in FxGravity, t1 \in FxTimes, t2 \in FxTimes,
       a_tdamp \in {Zero, R(6)} :
        /\ (vary = "g") = (g1 # g2)
        /\ (vary = "t") = (t1 # t2)
        /\ fx = [kind |-> "pg", step |-> "drawn", vary |-> vary,
                 d |-> Particle(1, q, Junk),
                 pairsA |-> FxPairs(ch, 0),
                 pairsB |-> IF vary = "p" THEN FxRepressured(FxPairs(ch, 0))
                            ELSE FxPairs(ch, 0),
                 dB |-> IF vary = "p"
                        THEN [Particle(1, q, Junk) EXCEPT !.p = R(3)]
                        ELSE Particle(1, q, Junk),
                 eA |-> PGOp(R(p0), g1, a_tdamp),
                 eB |-> PGOp(IF vary = "pb" THEN R(2 * p0) ELSE R(p0), g2, a_tdamp),
                 tA |-> t1, tB |-> t2,
                 outA |-> Particle(1, q, Junk), outB |-> Particle(1, q, Junk)]

\* fluid particles at rest with uniform density rho0, any left-over pressure
FxInitPatch ==
    \E ch \in FxNbrChoices, a_rho0 \in {R(rho), One}, a_p0 \in {R(p0), R(7)},
       a_pb \in {Zero, R(p0)}, t \in {R(0), R(7)} :
        fx = [kind |-> "patch", step |-> "drawn",
              se |-> [name |-> "StateEquation", dest |-> "fluid", sources |-> {},
                      p0 |-> a_p0, rho0 |-> a_rho0, b |-> One],
              pge |-> PGOp(a_pb, <<Zero, Zero, Zero>>, R(6)),
              ve |-> ViscOp(nu0),
              t |-> t,
              d |-> [Particle(0, 1, Junk) EXCEPT !.rho = a_rho0,
                                                  !.V = RDiv(a_rho0, m0)],
              pairs |-> [i \in 1..Len(ch) |->
                            [FxPair(0, ch[i][1], ch[i][2]) EXCEPT
                                !.s.rho = a_rho0, !.s.V = RDiv(a_rho0, m0)]],
              out |-> Particle(0, 0, Junk)]

FxInit ==
    /\ mode = "fx"
    /\ (FxInitEos \/ FxInitPG \/ FxInitPatch)
    /\ IdleEngine /\ IdleIO /\ IdleCtor /\ IdleStart

FxStateEquation ==
    /\ mode = "fx" /\ fx.kind = "eos" /\ fx.step = "drawn"
    /\ fx' = [fx EXCEPT !.step = "p", !.out = StateEquation_loop(fx.e, fx.d)]
    /\ UNCHANGED <<mode, start, evars, iovars, ctor>>

FxBackSolve ==
    /\ mode = "fx" /\ fx.kind = "eos" /\ fx.step = "p"
    /\ fx' = [fx EXCEPT !.step = "rho",
                        !.out = SolidWallPressureBC_density(fx.e, fx.out)]
    /\ UNCHANGED <<mode, start, evars, iovars, ctor>>

FxPassA ==
    /\ mode = "fx" /\ fx.kind = "pg" /\ fx.step = "drawn"
    /\ fx' = [fx EXCEPT !.step = "a",
                        !.outA = StagePass(<<fx.eA>>, fx.d, fx.pairsA, fx.tA)]
    /\ UNCHANGED <<mode, start, evars, iovars, ctor>>

FxPassB ==
    /\ mode = "fx" /\ fx.kind = "pg" /\ fx.step = "a"
    /\ fx' = [fx EXCEPT !.step = "b",
                        !.outB = StagePass(<<fx.eB>>, fx.dB, fx.pairsB, fx.tB)]
    /\ UNCHANGED <<mode, start, evars, iovars, ctor>>

\* the pressure of every particle from StateEquation
FxPatchStateEquation ==
    /\ mode = "fx" /\ fx.kind = "patch" /\ fx.step = "drawn"
    /\ fx' = [fx EXCEPT !.step = "eos",
                        !.d = StateEquation_loop(fx.se, fx.d),
                        !.pairs = [i \in 1..Len(fx.pairs) |->
                                      [fx.pairs[i] EXCEPT
                                          !.s = StateEquation_loop(fx.se, fx.pairs[i].s)]]]
    /\ UNCHANGED <<mode, start, evars, iovars, ctor>>

FxPatchPressureGradient ==
    /\ mode = "fx" /\ fx.kind = "patch" /\ fx.step = "eos"
    /\ fx' = [fx EXCEPT !.step = "pg",
                        !.out = StagePass(<<fx.pge>>, fx.d, fx.pairs, fx.t)]
    /\ UNCHANGED <<mode, start, evars, iovars, ctor>>

FxPatchViscosity ==
    /\ mode = "fx" /\ fx.kind = "patch" /\ fx.step = "pg"
    /\ fx' = [fx EXCEPT !.step = "visc",
                        !.out = StagePass(<<fx.ve>>, fx.d, fx.pairs, fx.t)]
    /\ UNCHANGED <<mode, start, evars, iovars, ctor>>

FxNext ==
    \/ FxStateEquation
    \/ FxBackSolve
    \/ FxPassA
    \/ FxPassB
    \/ FxPatchStateEquation
    \/ FxPatchPressureGradient
    \/ FxPatchViscosity

SpecFx == FxInit /\ [][FxNext]_vars

Acc3(d) == <<d.au, d.av, d.aw>>
AccHat3(d) == <<d.auhat, d.avhat, d.awhat>>
Zero3 == <<Zero, Zero, Zero>>

\* C7: two passes of MomentumEquationPressureGradient that differ only in the
\* background pressure pb give the same (au, av, aw); two passes that differ only
\* in the pressures, in the body force or in the time give the same
\* (auhat, avhat, awhat).
C7_BackgroundPressureChannel ==
    (mode = "fx" /\ fx.kind = "pg" /\ fx.step = "b") =>
        /\ fx.vary = "pb" => Acc3(fx.outA) = Acc3(fx.outB)
        /\ fx.vary \in {"p", "g", "t"} => AccHat3(fx.outA) = AccHat3(fx.outB)

\* two passes over two neighbours with pb and 2 pb: the same momentum
\* acceleration, not zero, and different transport accelerations
C7_Witness ==
    /\ mode = "fx" /\ fx.kind = "pg" /\ fx.step = "b" /\ fx.vary = "pb"
    /\ Len(fx.pairsA) = 2
    /\ Acc3(fx.outA) = Acc3(fx.outB) /\ fx.outA.au # Zero
    /\ AccHat3(fx.outA) # AccHat3(fx.outB)

\* C9: with b = 1 and nonzero rho0 and p0 on both operators, the density
\* back-solved from the pressure StateEquation computed is the density it
\* was computed from.
C9_StateEquationRoundTrip ==
    (mode = "fx" /\ fx.kind = "eos" /\ fx.step = "rho" /\ fx.e.b = One) =>
        fx.out.rho = fx.d.rho

\* a density other than rho0, through a pressure other than zero, and back
C9_Witness ==
    /\ mode = "fx" /\ fx.kind = "eos" /\ fx.step = "rho" /\ fx.e.b = One
    /\ fx.e.rho0 = R(rho) /\ fx.e.p0 = R(p0)
    /\ fx.d.rho = RMul(Q(3, 2), R(rho))
    /\ fx.out.p = R(p0 \div 2)
    /\ fx.out.rho = fx.d.rho

\* C10: for particles at rest with density rho0, pressure from StateEquation with
\* b = 1 and no body force, the pass of MomentumEquationPressureGradient and the
\* pass of MomentumEquationViscosity each leave au = av = aw = 0, for any
\* neighbours and kernel gradients.
C10_PatchTest ==
    (mode = "fx" /\ fx.kind = "patch" /\ fx.step \in {"pg", "visc"}) =>
        Acc3(fx.out) = Zero3

\* the pressure-gradient pass over two neighbours: the transport channel got
\* its background term, the momentum channel nothing
C10_Witness ==
    /\ mode = "fx" /\ fx.kind = "patch" /\ fx.step = "pg"
    /\ Len(fx.pairs) = 2
    /\ fx.pge.pb # Zero
    /\ fx.out.auhat # Zero
    /\ Acc3(fx.out) = Zero3

----------------------------------------------------------------------------
(* Every operator of the repository in a stage of its own, for one          *)
(* destination particle and a drawn neighbour list                         *)

\* a particle with the properties the operators of the module use beyond
\* those of Particle: arho, vhat, what
FullParticle(k, q, acc) ==
    Particle(k, q, acc) @@ [arho |-> acc, vhat |-> R(k), what |-> One]

\* source particle with velocity and pressure index k, at geometry number j
OpPair(k, j) ==
    [s |-> FullParticle(k, k, Junk),
     n |-> [coll |-> "fluid", idx |-> j, W |-> GeomW(j), H |-> GeomH,
            X |-> GeomX(j), DW |-> GeomDW(j)]]

OpNbrChoices ==
    UNION {[1..n -> (0..MaxVel) \X (1..MaxGeom)] : n \in 0..MaxNbrs}

OpPairs(ch) == [i \in 1..Len(ch) |-> OpPair(ch[i][1], ch[i][2])]

\* the operators of transport_velocity_free_of_NumberDensity.py and
\* flow_past_cyl.py, each with destination and source fluid
Op(name) == [name |-> name, dest |-> "fluid", sources |-> {"fluid"}]

Operators ==
    {Op("VolumeSummation"), Op("SummationDensity"), Op("VolumeFromMassDensity"),
     Op("SetWallVelocity"), Op("ContinuityEquation"), Op("ContinuitySolid"),
     Op("StateEquation") @@ [p0 |-> R(p0), rho0 |-> R(rho), b |-> One],
     PGOp(R(p0), <<Zero, R(-1), Zero>>, R(6)),
     ViscOp(nu0),
     Op("MomentumEquationArtificialViscosity") @@ [c0 |-> R(c0), alpha |-> Q(1, 10)],
     Op("MomentumEquationArtificialStress") @@ [dim |-> 2],
     Op("SolidWallNoSlipBC") @@ [nu |-> nu0],
     Op("SolidWallPressureBC") @@ [rho0 |-> R(rho), p0 |-> R(p0), b |-> One,
                                   gx |-> Zero, gy |-> R(-1), gz |-> Zero],
     Op("ExtrapolateUhat"),
     Op("ResetInletVelocity") @@ [U |-> R(umax), V |-> Zero, W |-> Zero]}

\* the destination properties the operator's accumulate adds to
Accumulators(name) ==
    CASE name = "VolumeSummation" -> {"V"}
      [] name = "SummationDensity" -> {"rho"}
      [] name = "SetWallVelocity" -> {"uf", "vf", "wf", "wij"}
      [] name \in {"ContinuityEquation", "ContinuitySolid"} -> {"arho"}
      [] name = "MomentumEquationPressureGradient" ->
            {"au", "av", "aw", "auhat", "avhat", "awhat"}
      [] name \in {"MomentumEquationViscosity", "MomentumEquationArtificialViscosity",
                   "MomentumEquationArtificialStress", "SolidWallNoSlipBC"} ->
            {"au", "av", "aw"}
      [] name = "SolidWallPressureBC" -> {"p", "wij"}
      [] name = "ExtrapolateUhat" -> {"uhat", "wij"}
      [] OTHER -> {}

\* the particle with other values left in the given properties
Stale(d, props) == [f \in DOMAIN d |-> IF f \in props THEN R(3) ELSE d[f]]

Permuted(pairs, perm) == [i \in 1..Len(pairs) |-> pairs[perm[i]]]

OpInitPass ==
    \E e \in Operators, ch \in OpNbrChoices, k \in 0..MaxVel, acc \in {Zero, Junk} :
        fx = [kind |-> "pass", step |-> "drawn", e |-> e,
              d |-> FullParticle(k, 1, acc),
              pairs |-> OpPairs(ch),
              perm |-> <<>>,
              t |-> R(2),
              outA |-> FullParticle(k, 1, acc),
              outB |-> FullParticle(k, 1, acc),
              outC |-> FullParticle(k, 1, acc)]

\* a source particle of collection c
StagePair(c, k, j) == [OpPair(k, j) EXCEPT !.n.coll = c]

StageNbrChoices ==
    UNION {[1..n -> {"fluid", "solid"} \X (0..MaxVel) \X (1..MaxGeom)] : n \in 0..MaxNbrs}

\* the momentum stage of the force evaluator, with a body force and a damping
\* time for MomentumEquationPressureGradient
MomentumStage(a_g, a_tdamp) ==
    [ForceEvaluatorStages[2].equations EXCEPT
        ![1].gx = a_g[1], ![1].gy = a_g[2], ![1].gz = a_g[3], ![1].tdamp = a_tdamp]

OpInitStage ==
    \E ch \in StageNbrChoices, k \in 0..MaxVel, acc \in {Zero, Junk},
       a_g \in FxGravity, t \in {R(0), R(2), R(7)} :
        fx = [kind |-> "stage", step |-> "drawn",
              eqs |-> MomentumStage(a_g, R(6)),
              d |-> FullParticle(k, 1, acc),
              pairs |-> [i \in 1..Len(ch) |-> StagePair(ch[i][1], ch[i][2], ch[i][3])],
              t |-> t,
              out |-> FullParticle(k, 1, acc)]

\* one pair for MomentumEquationViscosity and SolidWallNoSlipBC: the source's
\* ghost velocity is its velocity, or what an earlier pass left
OpInitPair ==
    \E k \in 0..MaxVel, ks \in 0..MaxVel, j \in 1..MaxGeom, acc \in {Zero, Junk},
       ghost \in BOOLEAN, a_nu \in {nu0, One}, r \in 1..MaxRho :
        fx = [kind |-> "pair", step |-> "drawn",
              nu |-> a_nu,
              d |-> FullParticle(k, 1, acc),
              pair |-> [OpPair(ks, j) EXCEPT
                          !.s.rho = RMul(R(r), R(rho)),
                          !.s.ug = IF ghost THEN Vel(ks)[1] ELSE Junk,
                          !.s.vg = IF ghost THEN Vel(ks)[2] ELSE Junk,
                          !.s.wg = IF ghost THEN Vel(ks)[3] ELSE Junk],
              outA |-> FullParticle(k, 1, acc),
              outB |-> FullParticle(k, 1, acc)]

OpInit ==
    /\ mode = "op"
    /\ (OpInitPass \/ OpInitStage \/ OpInitPair)
    /\ IdleEngine /\ IdleIO /\ IdleCtor /\ IdleStart

OpPass ==
    /\ mode = "op" /\ fx.kind = "pass" /\ fx.step = "drawn"
    /\ fx' = [fx EXCEPT !.step = "a",
                        !.outA = StagePass(<<fx.e>>, fx.d, fx.pairs, fx.t)]
    /\ UNCHANGED <<mode, start, evars, iovars, ctor>>

\* the same pass with the neighbours visited in another order
OpPassPermuted ==
    /\ mode = "op" /\ fx.kind = "pass" /\ fx.step = "a"
    /\ \E perm \in Permutations(1..Len(fx.pairs)) :
          fx' = [fx EXCEPT !.step = "b", !.perm = perm,
                           !.outB = StagePass(<<fx.e>>, fx.d,
                                              Permuted(fx.pairs, perm), fx.t)]
    /\ UNCHANGED <<mode, start, evars, iovars, ctor>>

\* the same pass on the particle with other values left in the accumulators
OpPassRestarted ==
    /\ mode = "op" /\ fx.kind = "pass" /\ fx.step = "b"
    /\ fx' = [fx EXCEPT !.step = "c",
                        !.outC = StagePass(<<fx.e>>,
                                           Stale(fx.d, Accumulators(fx.e.name)),
                                           fx.pairs, fx.t)]
    /\ UNCHANGED <<mode, start, evars, iovars, ctor>>

\* the momentum stage for one destination particle
OpMomentumStage ==
    /\ mode = "op" /\ fx.kind = "stage" /\ fx.step = "drawn"
    /\ fx' = [fx EXCEPT !.step = "done",
                        !.out = StagePass(fx.eqs, fx.d, fx.pairs, fx.t)]
    /\ UNCHANGED <<mode, start, evars, iovars, ctor>>

OpAccumulateViscosity ==
    /\ mode = "op" /\ fx.kind = "pair" /\ fx.step = "drawn"
    /\ fx' = [fx EXCEPT !.step = "a",
                        !.outA = MomentumEquationViscosity_loop(
                                     ViscOp(fx.nu), fx.d, fx.pair.s,
                                     PairGeometry(fx.pair.n, fx.d, fx.pair.s))]
    /\ UNCHANGED <<mode, start, evars, iovars, ctor>>

OpAccumulateNoSlip ==
    /\ mode = "op" /\ fx.kind = "pair" /\ fx.step = "a"
    /\ fx' = [fx EXCEPT !.step = "b",
                        !.outB = SolidWallNoSlipBC_loop(
                                     Op("SolidWallNoSlipBC") @@ [nu |-> fx.nu],
                                     fx.d, fx.pair.s,
                                     PairGeometry(fx.pair.n, fx.d, fx.pair.s))]
    /\ UNCHANGED <<mode, start, evars, iovars, ctor>>

OpNext ==
    \/ OpPass
    \/ OpPassPermuted
    \/ OpPassRestarted
    \/ OpMomentumStage
    \/ OpAccumulateViscosity
    \/ OpAccumulateNoSlip

SpecOp == OpInit /\ [][OpNext]_vars

\* C11: for every operator and destination particle, the pass over a permuted
\* neighbour list leaves every destination property as the pass over the
\* original list leaves it.
C11_NeighbourOrderIndependent ==
    (mode = "op" /\ fx.kind = "pass" /\ fx.step \in {"b", "c"}) => fx.outB = fx.outA

\* SetWallVelocity over two different neighbours, visited in both orders
C11_Witness ==
    /\ mode = "op" /\ fx.kind = "pass" /\ fx.step = "b"
    /\ fx.e.name = "SetWallVelocity"
    /\ Len(fx.pairs) = 2 /\ fx.pairs[1] # fx.pairs[2]
    /\ fx.perm = <<2, 1>>
    /\ fx.outA.uf # Zero /\ fx.outA.uf # fx.pairs[2].s.u
    /\ fx.outB = fx.outA

\* C13: the value every operator leaves in each accumulator its accumulate adds
\* to does not depend on the value the accumulator had before the pass.
C13_AccumulatorsZeroed ==
    (mode = "op" /\ fx.kind = "pass" /\ fx.step = "c") =>
        \A f \in Accumulators(fx.e.name) : fx.outC[f] = fx.outA[f]

Add3(a, b) == <<RAdd(a[1], b[1]), RAdd(a[2], b[2]), RAdd(a[3], b[3])>>

\* what one accumulate call of operator e adds to (au, av, aw) for the pair
Contribution(e, d, p) ==
    IF Interacts(e, p.n.coll)
    THEN Acc3(OpLoop(e, [d EXCEPT !.au = Zero, !.av = Zero, !.aw = Zero], p.s,
                     PairGeometry(p.n, d, p.s)))
    ELSE Zero3

\* the contributions of all operators over all pairs
RECURSIVE SumContributions(_, _, _, _, _)
SumContributions(eqs, d, pairs, i, k) ==
    IF i > Len(pairs) THEN Zero3
    ELSE IF k > Len(eqs) THEN SumContributions(eqs, d, pairs, i + 1, 1)
    ELSE Add3(Contribution(eqs[k], d, pairs[i]),
              SumContributions(eqs, d, pairs, i, k + 1))

\* the body force of the pressure-gradient operator at time t
BodyForce(e, t) ==
    <<RMul(damping_factor(e, t), e.gx), RMul(damping_factor(e, t), e.gy),
      RMul(damping_factor(e, t), e.gz)>>

\* C14: after the momentum stage of the force evaluator (au, av, aw) is the sum
\* of the pressure-gradient, viscosity and no-slip contributions over all
\* neighbours plus the damped body force once, whatever the accumulators held
\* before the pass.
C14_MomentumStageSum ==
    (mode = "op" /\ fx.kind = "stage" /\ fx.step = "done") =>
        Acc3(fx.out) = Add3(SumContributions(fx.eqs, fx.d, fx.pairs, 1, 1),
                            BodyForce(fx.eqs[1], fx.t))

\* a fluid and a solid neighbour, a body force at full strength, and
\* accelerations left from before: each operator has contributed
C14_Witness ==
    /\ mode = "op" /\ fx.kind = "stage" /\ fx.step = "done"
    /\ Len(fx.pairs) = 2
    /\ fx.pairs[1].n.coll = "fluid" /\ fx.pairs[2].n.coll = "solid"
    /\ fx.d.au = Junk
    /\ fx.eqs[1].gy = R(-1) /\ fx.t = R(7)
    /\ \A k \in 1..3 : Contribution(fx.eqs[k], fx.d, fx.pairs[1]) # Zero3
    /\ Acc3(fx.out) = Add3(SumContributions(fx.eqs, fx.d, fx.pairs, 1, 1),
                           <<Zero, R(-1), Zero>>)

\* C16: for a source whose ghost velocity is its velocity, the accumulate of
\* SolidWallNoSlipBC leaves in (au, av, aw) what the accumulate of
\* MomentumEquationViscosity leaves, for the same nu and pair.
C16_NoSlipIsViscosity ==
    (mode = "op" /\ fx.kind = "pair" /\ fx.step = "b"
       /\ <<fx.pair.s.ug, fx.pair.s.vg, fx.pair.s.wg>>
            = <<fx.pair.s.u, fx.pair.s.v, fx.pair.s.w>>) =>
        Acc3(fx.outB) = Acc3(fx.outA)

\* a moving source with ghost velocity equal to its velocity: both operators
\* have added the same amount, not zero
C16_Witness ==
    /\ mode = "op" /\ fx.kind = "pair" /\ fx.step = "b"
    /\ fx.pair.s.ug = fx.pair.s.u /\ fx.pair.s.vg = fx.pair.s.v
    /\ fx.pair.s.wg = fx.pair.s.w
    /\ fx.pair.s.u # fx.d.u
    /\ fx.outA.au # fx.d.au
    /\ Acc3(fx.outB) = Acc3(fx.outA)

----------------------------------------------------------------------------
(* Destination-parallel evaluation: the destination particles of a stage   *)
(* are processed by concurrent tasks, with a barrier between stages        *)

NParDest == 2

\* the boundary particles in range of fluid particle f
RECURSIVE ParLinkedBoundary(_, _, _, _)
ParLinkedBoundary(link, c, f, b) ==
    IF b > NParDest THEN <<>>
    ELSE (IF link[<<f, b>>]
          THEN << [coll |-> c, idx |-> b, W |-> GeomW(f + b - 1), H |-> GeomH,
                   X |-> GeomX(f + b - 1), DW |-> GeomDW(f + b - 1)] >>
          ELSE <<>>) \o ParLinkedBoundary(link, c, f, b + 1)

\* the fluid particles in range of boundary particle b
RECURSIVE ParLinkedFluid(_, _, _)
ParLinkedFluid(link, b, f) ==
    IF f > NFluid THEN <<>>
    ELSE (IF link[<<f, b>>]
          THEN << [coll |-> "fluid", idx |-> f, W |-> GeomW(f + b - 1), H |-> GeomH,
                   X |-> Neg3(GeomX(f + b - 1)),
                   DW |-> Neg3(GeomDW(f + b - 1))] >>
          ELSE <<>>) \o ParLinkedFluid(link, b, f + 1)

\* the other boundary particles, all in range of boundary particle b
RECURSIVE ParOtherBoundary(_, _, _)
ParOtherBoundary(c, b, b2) ==
    IF b2 > NParDest THEN <<>>
    ELSE (IF b2 < b
          THEN << [coll |-> c, idx |-> b2, W |-> GeomW(b - b2), H |-> GeomH,
                   X |-> GeomX(b - b2), DW |-> GeomDW(b - b2)] >>
          ELSE IF b2 > b
          THEN << [coll |-> c, idx |-> b2, W |-> GeomW(b2 - b), H |-> GeomH,
                   X |-> Neg3(GeomX(b2 - b)), DW |-> Neg3(GeomDW(b2 - b))] >>
          ELSE << SelfPair(c, b) >>) \o ParOtherBoundary(c, b, b2 + 1)

ParNeighbours(link, c) ==
    [x \in ({"fluid"} \X (1..NFluid)) \cup ({c} \X (1..NParDest)) |->
        IF x[1] = "fluid"
        THEN ParLinkedBoundary(link, c, x[2], 1)
        ELSE ParLinkedFluid(link, x[2], 1) \o ParOtherBoundary(c, x[2], 1)]

ParStart(st, P) ==
    [i \in 1..Len(P[st.dest]) |-> [phase |-> "initialize", k |-> 1]]

ParInit ==
    /\ mode = "par"
    /\ prog \in {"force", "inlet"}
    /\ \E acc \in {Zero, Junk} :
          pa = [c \in {"fluid", BoundaryOf(prog)} |->
                  IF c = "fluid"
                  THEN [i \in 1..NFluid |-> Particle(i % (MaxVel + 1), i % 2, acc)]
                  ELSE [i \in 1..NParDest |-> Particle((i + 1) % (MaxVel + 1), 0, acc)]]
    /\ \E link \in [(1..NFluid) \X (1..NParDest) -> BOOLEAN] :
          nbr = ParNeighbours(link, BoundaryOf(prog))
    /\ pc = [stage |-> 1, overlap |-> FALSE, pos |-> ParStart(Stages(prog)[1], pa)]
    /\ start = pa
    /\ cycle = 1
    /\ divs = {} /\ fin = {} /\ ghostReads = {}
    /\ IdleIO /\ IdleCtor /\ IdleFx

ParRunning == mode = "par" /\ pc.stage <= Len(Stages(prog))

\* a task starts destination particle i: initialize of every operator
ParInitialize(i) ==
    /\ ParRunning /\ pc.pos[i].phase = "initialize"
    /\ pa' = [pa EXCEPT ![CurStage.dest][i] =
                  InitializeAll(CurStage.equations, 1, pa[CurStage.dest][i])]
    /\ pc' = [pc EXCEPT !.pos[i].phase = "accumulate",
                        !.overlap = pc.overlap
                                    \/ \E j \in DOMAIN pc.pos : pc.pos[j].phase = "accumulate"]
    /\ UNCHANGED <<mode, start, nbr, prog, cycle, divs, fin, ghostReads, io, ioLast,
                   ctor, fx>>

\* the task of destination particle i visits its next neighbour, reading the
\* source particle's properties as they are in the arrays now
ParAccumulate(i) ==
    /\ ParRunning /\ pc.pos[i].phase = "accumulate"
    /\ pc.pos[i].k <= Len(StageNeighbours(CurStage, i))
    /\ LET n == StageNeighbours(CurStage, i)[pc.pos[i].k]
           d == pa[CurStage.dest][i]
           s == pa[n.coll][n.idx]
           self == n.coll = CurStage.dest /\ n.idx = i
       IN pa' = [pa EXCEPT ![CurStage.dest][i] =
                     AccumulateAll(CurStage.equations, 1, d, s, self, n.coll,
                                   PairGeometry(n, d, s))]
    /\ pc' = [pc EXCEPT !.pos[i].k = pc.pos[i].k + 1]
    /\ UNCHANGED <<mode, start, nbr, prog, cycle, divs, fin, ghostReads, io, ioLast,
                   ctor, fx>>

ParFinalize(i) ==
    /\ ParRunning /\ pc.pos[i].phase = "accumulate"
    /\ pc.pos[i].k > Len(StageNeighbours(CurStage, i))
    /\ pa' = [pa EXCEPT ![CurStage.dest][i] =
                  FinalizeAll(CurStage.equations, 1, pa[CurStage.dest][i], EvalTime)]
    /\ pc' = [pc EXCEPT !.pos[i].phase = "done"]
    /\ UNCHANGED <<mode, start, nbr, prog, cycle, divs, fin, ghostReads, io, ioLast,
                   ctor, fx>>

\* the barrier: the next stage starts when every destination particle is done
ParBarrier ==
    /\ ParRunning
    /\ \A i \in DOMAIN pc.pos : pc.pos[i].phase = "done"
    /\ pc' = [pc EXCEPT !.stage = pc.stage + 1,
                        !.pos = IF pc.stage < Len(Stages(prog))
                                THEN ParStart(Stages(prog)[pc.stage + 1], pa)
                                ELSE <<>>]
    /\ UNCHANGED <<mode, start, pa, nbr, prog, cycle, divs, fin, ghostReads, io, ioLast,
                   ctor, fx>>

ParNext ==
    \/ \E i \in DOMAIN pc.pos : ParInitialize(i)
    \/ \E i \in DOMAIN pc.pos : ParAccumulate(i)
    \/ \E i \in DOMAIN pc.pos : ParFinalize(i)
    \/ ParBarrier

SpecPar == ParInit /\ [][ParNext]_vars

\* the sequential evaluation of the arrays P: stage after stage, destination
\* particle after destination particle
RECURSIVE SeqAccumulate(_, _, _, _)
SeqAccumulate(st, P, di, k) ==
    IF k > Len(StageNeighbours(st, di)) THEN P
    ELSE LET n == StageNeighbours(st, di)[k]
             d == P[st.dest][di]
             s == P[n.coll][n.idx]
             self == n.coll = st.dest /\ n.idx = di
         IN SeqAccumulate(st,
                          [P EXCEPT ![st.dest][di] =
                              AccumulateAll(st.equations, 1, d, s, self, n.coll,
                                            PairGeometry(n, d, s))],
                          di, k + 1)

SeqParticle(st, P, di) ==
    LET P1 == [P EXCEPT ![st.dest][di] = InitializeAll(st.equations, 1, P[st.dest][di])]
        P2 == SeqAccumulate(st, P1, di, 1)
    IN [P2 EXCEPT ![st.dest][di] = FinalizeAll(st.equations, 1, P2[st.dest][di], EvalTime)]

RECURSIVE SeqStage(_, _, _)
SeqStage(st, P, di) ==
    IF di > Len(P[st.dest]) THEN P ELSE SeqStage(st, SeqParticle(st, P, di), di + 1)

RECURSIVE SeqStages(_, _, _)
SeqStages(stages, P, i) ==
    IF i > Len(stages) THEN P ELSE SeqStages(stages, SeqStage(stages[i], P, 1), i + 1)

\* C15: whatever the interleaving of the tasks within each stage, the arrays
\* after the last stage are those the sequential evaluation computes from the
\* arrays the cycle started with.
C15_ParallelIsSequential ==
    (mode = "par" /\ pc.stage > Len(Stages(prog))) =>
        pa = SeqStages(Stages(prog), start, 1)

\* the force evaluator has finished after tasks overlapped, and the second
\* solid particle, a neighbour of the first, got an acceleration
C15_Witness ==
    /\ mode = "par" /\ prog = "force" /\ pc.stage > Len(Stages(prog))
    /\ pc.overlap
    /\ start["solid"][2].au = Junk
    /\ pa["solid"][2].au # Zero /\ pa["solid"][2].au # Junk
    /\ pa["solid"][1].au # Zero
    /\ pa = SeqStages(Stages(prog), start, 1)

====
